---- MODULE Spec2Model ----
(***************************************************************************)
(* A model of the kernel build wrapper: wrapper/__main__.py (argument      *)
(* parsing, settings validation, output-log setup, container projection    *)
(* and dispatch) and wrapper/tools/fileoperations.py (ucopy, download).    *)
(*                                                                         *)
(* One run of the wrapper is a sequential program; `pc` is its position.   *)
(* Spec is a run of main(parse_args()); SpecTransfer is one call of a      *)
(* transfer primitive (download or ucopy).                                 *)
(***************************************************************************)
EXTENDS Integers, Sequences, FiniteSets, TLC

VARIABLES
    argv,       \* the command line, as the options and positionals given
    host,       \* platform facts: platform.system() and whether apt runs
    fs,         \* the files that exist, as absolute paths
    pc,         \* position of the run in main()
    args,       \* the argparse.Namespace, as a mapping dest -> value
    env,        \* os.environ entries published by the run
    loaded,     \* manifests opened so far, in order
    checks,     \* validation checks evaluated so far, in order
    verdict,    \* outcome of validate_settings ("none" before it ran)
    msgs,       \* messages emitted through tools.messages, in order
    redirects,  \* output-log redirections established, in order
    calls,      \* collaborator invocations, in order
    status,     \* process exit status ("running" until the process ends)
    xfer        \* state of a transfer primitive call (SpecTransfer)

vars == <<argv, host, fs, pc, args, env, loaded, checks, verdict, msgs,
          redirects, calls, status, xfer>>

mainVars == <<argv, host, fs, pc, args, env, loaded, checks, verdict, msgs,
              redirects, calls, status>>

\* Python's None (and the empty string, equally falsy) for an optional path.
None == <<>>

(***************************************************************************)
(* Inputs                                                                  *)
(***************************************************************************)
BuildEnvs == {"local", "docker", "podman"}

LogLevels == {"normal", "verbose", "quiet"}

Chroots == {"full", "minimal"}

PackageTypes == {"conan", "generic-slim"}

LosVersions == {"20.0"}

Codenames == {"pixel9", "unknownDevice"}

\* keys of manifests/devices.json
DeviceManifest == {"pixel9", "dumpling"}

\* os.getenv("ROOTPATH"), the working directory after os.chdir
RootPath == <<"/", "opt", "wrapper">>

\* A path is the sequence of its components; an absolute one starts with "/".
OutPaths == {<<"out.log">>, <<"logs", "out.log">>, <<"/", "tmp", "out.log">>}

ExtraAssets == {None, <<"extra.json">>}

Hosts == {[system |-> "Linux", apt |-> TRUE],
          [system |-> "Linux", apt |-> FALSE],
          [system |-> "Darwin", apt |-> FALSE]}

\* `[--clean]` alone, or nothing at all
BareArgv == [topClean : BOOLEAN, command : {"none"}]

KernelArgv ==
    [topClean : BOOLEAN, command : {"kernel"}, buildenv : BuildEnvs,
     losversion : LosVersions, codename : Codenames, clean : BOOLEAN,
     clean_image : BOOLEAN, loglvl : LogLevels, outlog : {None} \cup OutPaths]

AssetsArgv ==
    [topClean : BOOLEAN, command : {"assets"}, buildenv : BuildEnvs,
     losversion : LosVersions, codename : Codenames, chroot : Chroots,
     extra_assets : ExtraAssets, rom_only : BOOLEAN, clean : BOOLEAN,
     clean_image : BOOLEAN, loglvl : LogLevels, outlog : {None} \cup OutPaths]

BundleArgv ==
    [topClean : BOOLEAN, command : {"bundle"}, buildenv : BuildEnvs,
     losversion : LosVersions, codename : Codenames,
     package_type : PackageTypes, conan_upload : BOOLEAN,
     clean_image : BOOLEAN, loglvl : LogLevels, outlog : {None} \cup OutPaths]

Argvs == BareArgv \cup KernelArgv \cup AssetsArgv \cup BundleArgv

(***************************************************************************)
(* parse_args                                                              *)
(***************************************************************************)
\* The parent parser's namespace: dest "command" of the subparsers and the
\* top-level --clean (store_true, default False).
parent_namespace(a) == [command |-> a.command, clean |-> a.topClean]

\* The namespace a subparser fills: every dest it declares, defaults included.
sub_namespace(a) ==
    CASE a.command = "kernel" ->
            [buildenv |-> a.buildenv, losversion |-> a.losversion,
             codename |-> a.codename, clean |-> a.clean,
             clean_image |-> a.clean_image, loglvl |-> a.loglvl,
             outlog |-> a.outlog]
      [] a.command = "assets" ->
            [buildenv |-> a.buildenv, losversion |-> a.losversion,
             codename |-> a.codename, chroot |-> a.chroot,
             extra_assets |-> a.extra_assets, rom_only |-> a.rom_only,
             clean_image |-> a.clean_image, clean |-> a.clean,
             loglvl |-> a.loglvl, outlog |-> a.outlog]
      [] a.command = "bundle" ->
            [buildenv |-> a.buildenv, losversion |-> a.losversion,
             codename |-> a.codename, package_type |-> a.package_type,
             conan_upload |-> a.conan_upload,
             clean_image |-> a.clean_image, loglvl |-> a.loglvl,
             outlog |-> a.outlog]
      [] OTHER -> [k \in {} |-> FALSE]

\* argparse parses a subcommand into a namespace of its own and then copies
\* every attribute of it onto the parent's namespace.
merge_namespace(p, s) ==
    [k \in (DOMAIN p) \cup (DOMAIN s) |-> IF k \in DOMAIN s THEN s[k] ELSE p[k]]

parse_args(a) == merge_namespace(parent_namespace(a), sub_namespace(a))

\* `args = None if sys.argv[1:] else ["-h"]`: with no argument at all the
\* parser prints the help and exits 0.
shows_help(a) == a.command = "none" /\ ~a.topClean

Unparsed == [command |-> "unparsed"]

(***************************************************************************)
(* tools.messages (not part of the sources at hand; modelled from the      *)
(* specification: an error is reported and ends the process with a         *)
(* non-zero status, a note or a done message is only reported)             *)
(***************************************************************************)
msg_note(log, text) == Append(log, [kind |-> "note", text |-> text])

msg_done(log, text) == Append(log, [kind |-> "done", text |-> text])

\* `st` is the state a function threads through its statements: once
\* `exited` is set, no later statement of the program runs.
msg_error(st, text) ==
    [st EXCEPT !.msgs = Append(@, [kind |-> "error", text |-> text]),
               !.exited = TRUE]

\* msg.outputstream(): the message sink becomes the file os.environ["OSTREAM"]
\* names. `stale` records whether a file was at that path at that moment.
msg_outputstream(rs, path, files) ==
    Append(rs, [path |-> path, stale |-> path \in files])

errors_of(log) == SelectSeq(log, LAMBDA m : m.kind = "error")

(***************************************************************************)
(* validate_settings                                                       *)
(***************************************************************************)
ErrNonLinux == "Can't build kernel on a non-Linux machine."

ErrNotDebian == "Detected Linux distribution is not Debian-based, unable to launch."

ErrDevice == "Unsupported device codename specified."

\* line 153; the text ends with a line feed
ErrConan == "Cannot use Conan-related arguments with non-Conan packaging\n"

probe(st, check) == [st EXCEPT !.checks = Append(@, check)]

\* lines 136-144: the OS family, only for a local build. ccmd.launch raises
\* when `apt --version` cannot run (h.apt = FALSE).
platform_check(st, a, h) ==
    IF st.exited \/ a.buildenv # "local" THEN st
    ELSE IF h.system # "Linux"
         THEN msg_error(probe(st, "system"), ErrNonLinux)
         ELSE IF ~h.apt
              THEN msg_error(probe(probe(st, "system"), "apt"), ErrNotDebian)
              ELSE probe(probe(st, "system"), "apt")

\* device_check, had the lookup been nested under the local-build branch
device_check_local_only(st, a, devices) ==
    IF st.exited \/ a.buildenv # "local" THEN st
    ELSE LET s1 == [probe(st, "devices") EXCEPT
                        !.loaded = Append(@, "devices.json")]
         IN  IF a.codename \notin devices THEN msg_error(s1, ErrDevice) ELSE s1

\* lines 146-149: devices.json is opened and the codename looked up.
device_check(st, a, devices) ==
    IF st.exited THEN st
    ELSE LET s1 == [probe(st, "devices") EXCEPT
                        !.loaded = Append(@, "devices.json")]
         IN  IF a.codename \notin devices THEN msg_error(s1, ErrDevice) ELSE s1

\* bundle_check, had line 152 not looked at the package type
bundle_check_any_upload(st, a) ==
    IF st.exited \/ a.command # "bundle" THEN st
    ELSE IF a.conan_upload
         THEN msg_error(probe(st, "conan"), ErrConan)
         ELSE probe(st, "conan")

\* lines 150-153: the Conan-related arguments of a bundle.
bundle_check(st, a) ==
    IF st.exited \/ a.command # "bundle" THEN st
    ELSE IF a.package_type # "conan" /\ a.conan_upload
         THEN msg_error(probe(st, "conan"), ErrConan)
         ELSE probe(st, "conan")

\* validate_settings, had the bundle check come before the device lookup
validate_settings_bundle_first(a, h, devices) ==
    LET st0 == [checks |-> <<>>, loaded |-> <<>>, msgs |-> <<>>,
                exited |-> FALSE]
    IN  device_check(bundle_check(platform_check(st0, a, h), a), a, devices)

validate_settings(a, h, devices) ==
    LET st0 == [checks |-> <<>>, loaded |-> <<>>, msgs |-> <<>>,
                exited |-> FALSE]
    IN  bundle_check(device_check(platform_check(st0, a, h), a, devices), a)

\* The error taxonomy of the specification, by the message reported.
verdict_of(st) ==
    IF errors_of(st.msgs) = <<>> THEN "ok"
    ELSE LET text == errors_of(st.msgs)[1].text
         IN  CASE text = ErrNonLinux -> "UnsupportedPlatform"
               [] text = ErrNotDebian -> "UnsupportedPlatform"
               [] text = ErrDevice -> "UnsupportedDevice"
               [] text = ErrConan -> "InvalidArgumentCombination"

Failures ==
    {"UnsupportedPlatform", "UnsupportedDevice", "InvalidArgumentCombination"}

(***************************************************************************)
(* The file system as main() sees it                                       *)
(***************************************************************************)
\* A relative path is taken from the working directory, which is ROOTPATH.
resolve(p) == IF p # <<>> /\ p[1] = "/" THEN p ELSE RootPath \o p

is_prefix(r, q) == Len(r) <= Len(q) /\ SubSeq(q, 1, Len(r)) = r

\* os.listdir(): the names of the entries of the working directory.
listdir(files) ==
    {q[Len(RootPath) + 1] :
        q \in {f \in files : is_prefix(RootPath, f) /\ Len(f) > Len(RootPath)}}

\* `args.outlog in os.listdir()`: the string given with -o equals an entry's
\* name. An entry's name holds no separator, so only a one-component path
\* can equal one.
in_listdir(p, files) == Len(p) = 1 /\ p[1] \in listdir(files)

os_remove(p, files) == files \ {resolve(p)}

(***************************************************************************)
(* main                                                                    *)
(***************************************************************************)
\* main_steps, had the output stream been set up before the validation
main_steps_output_first ==
    <<"prepare", "load", "output", "validate", "dispatch">>

\* The statements of main() in program order: lines 158-162, 163-167, 168,
\* 170-175 and 177-223.
main_steps == <<"prepare", "load", "validate", "output", "dispatch">>

step_index(p) == CHOOSE i \in 1..Len(main_steps) : main_steps[i] = p

next_step(p) ==
    IF step_index(p) = Len(main_steps) THEN "done"
    ELSE main_steps[step_index(p) + 1]

\* manifests/info.json
InfoManifest == [name |-> "s0nh", version |-> "1.0"]

\* lines 180-193
params ==
    {"buildenv", "build_module", "codename", "losversion", "clean_image",
     "chroot", "package_type", "clean_kernel", "clean_assets", "rom_only",
     "extra_assets", "conan_upload"}

\* container_arguments, had line 179 taken the build environment instead
container_arguments_buildenv(a) ==
    merge_namespace(a, [build_module |-> a.buildenv])

\* lines 178-179: vars(args) with build_module set to the command
container_arguments(a) == merge_namespace(a, [build_module |-> a.command])

\* passed_params, had lines 195-197 copied every entry
passed_params_unfiltered(a) == container_arguments(a)

\* lines 194-197: the entries of `arguments` whose key is in `params`
passed_params(a) ==
    LET arguments == container_arguments(a)
    IN  [k \in (DOMAIN arguments) \cap params |-> arguments[k]]

\* lines 203-223: the collaborator of a local build, with its arguments
local_call(a) ==
    CASE a.command = "kernel" ->
            <<[fn |-> "KernelBuilder", codename |-> a.codename,
               losversion |-> a.losversion, clean |-> a.clean]>>
      [] a.command = "assets" ->
            <<[fn |-> "AssetCollector", codename |-> a.codename,
               losversion |-> a.losversion, chroot |-> a.chroot,
               clean |-> a.clean, rom_only |-> a.rom_only,
               extra_assets |-> a.extra_assets]>>
      [] a.command = "bundle" ->
            <<[fn |-> "BundleCreator", codename |-> a.codename,
               losversion |-> a.losversion,
               package_type |-> a.package_type]>>
      [] OTHER -> <<>>

\* line 227: parse_args(), which ends the process itself to show the help
ParseArgs ==
    /\ pc = "parse"
    /\ IF shows_help(argv)
       THEN /\ pc' = "exit"
            /\ status' = 0
            /\ args' = args
       ELSE /\ pc' = main_steps[1]
            /\ status' = status
            /\ args' = parse_args(argv)
    /\ UNCHANGED <<argv, host, fs, env, loaded, checks, verdict, msgs,
                   redirects, calls, xfer>>

\* lines 158-162: ROOTPATH, chdir, and the clean-only branch
Prepare ==
    /\ pc = "prepare"
    /\ env' = ("ROOTPATH" :> RootPath) @@ env
    /\ IF args.clean
       THEN /\ calls' = Append(calls, [fn |-> "cm.root"])
            /\ status' = 0
            /\ pc' = "exit"
       ELSE /\ calls' = calls
            /\ status' = status
            /\ pc' = next_step("prepare")
    /\ UNCHANGED <<argv, host, fs, args, loaded, checks, verdict, msgs,
                   redirects, xfer>>

\* lines 163-167: LOGLEVEL, and KNAME and KVERSION from info.json
Load ==
    /\ pc = "load"
    /\ loaded' = Append(loaded, "info.json")
    /\ env' = ("LOGLEVEL" :> args.loglvl) @@ ("KNAME" :> InfoManifest.name)
                @@ ("KVERSION" :> InfoManifest.version) @@ env
    /\ pc' = next_step("load")
    /\ UNCHANGED <<argv, host, fs, args, checks, verdict, msgs, redirects,
                   calls, status, xfer>>

\* line 168: validate_settings(args)
Validate ==
    /\ pc = "validate"
    /\ LET st == validate_settings(args, host, DeviceManifest)
       IN  /\ checks' = checks \o st.checks
           /\ loaded' = loaded \o st.loaded
           /\ msgs' = msgs \o st.msgs
           /\ verdict' = verdict_of(st)
           /\ IF st.exited
              THEN pc' = "exit" /\ status' = 1
              ELSE pc' = next_step("validate") /\ status' = status
    /\ UNCHANGED <<argv, host, fs, args, env, redirects, calls, xfer>>

\* lines 170-175: the output stream
Output ==
    /\ pc = "output"
    /\ IF args.command # "none" /\ args.outlog # None
       THEN LET files == IF in_listdir(args.outlog, fs)
                         THEN os_remove(args.outlog, fs)
                         ELSE fs
            IN  /\ msgs' = msg_note(msgs, "Writing output to")
                /\ fs' = files
                /\ env' = ("OSTREAM" :> args.outlog) @@ env
                /\ redirects' =
                       msg_outputstream(redirects, resolve(args.outlog), files)
       ELSE UNCHANGED <<msgs, fs, env, redirects>>
    /\ pc' = next_step("output")
    /\ UNCHANGED <<argv, host, args, loaded, checks, verdict, calls, status,
                   xfer>>

\* lines 177-223: the containerized build, or the local one. vars(args) is
\* the namespace's own dictionary, so line 179 leaves build_module on args.
Dispatch ==
    /\ pc = "dispatch"
    /\ IF args.buildenv \in {"docker", "podman"}
       THEN /\ args' = container_arguments(args)
            /\ calls' = Append(calls, [fn |-> "ContainerEngine",
                                       config |-> passed_params(args)])
       ELSE /\ args' = args
            /\ calls' = calls \o local_call(args)
    /\ pc' = next_step("dispatch")
    /\ status' = IF next_step("dispatch") = "done" THEN 0 ELSE status
    /\ UNCHANGED <<argv, host, fs, env, loaded, checks, verdict, msgs,
                   redirects, xfer>>

Idle == [op |-> "none"]

Init ==
    /\ argv \in Argvs
    /\ host \in Hosts
    /\ fs \in {{}, {resolve(p) : p \in OutPaths}}
    /\ pc = "parse"
    /\ args = Unparsed
    /\ env = [k \in {} |-> None]
    /\ loaded = <<>>
    /\ checks = <<>>
    /\ verdict = "none"
    /\ msgs = <<>>
    /\ redirects = <<>>
    /\ calls = <<>>
    /\ status = "running"
    /\ xfer = Idle

Next ==
    \/ ParseArgs
    \/ Prepare
    \/ Load
    \/ Validate
    \/ Output
    \/ Dispatch

Spec == Init /\ [][Next]_vars

(***************************************************************************)
(* tools/fileoperations.py: download                                       *)
(***************************************************************************)
\* chunks a response body may hold
MaxChunks == 2

\* entries the source directory of ucopy may hold
MaxEntries == 2

\* A URL as url.split("/") gives it; the last piece is the file name.
Urls == {<<"https:", "", "host", "rom.zip">>, <<"https:", "", "host", "roms", "">>}

url_file(url) == url[Len(url)]

\* What the network and the disk will do to a download: whether requests.get
\* connects, whether the status passes raise_for_status, whether the working
\* directory is writable, how many chunks the body has, at which chunk
\* (0: none) reading or writing breaks, and whether the file closes (the
\* flush on leaving `with open`) once the chunks are written.
DownloadInputs ==
    [op : {"download"}, url : Urls, connects : BOOLEAN, http_ok : BOOLEAN,
     writable : BOOLEAN, chunks : 0..MaxChunks, fail_at : 0..MaxChunks,
     close_ok : BOOLEAN]

download_start(i) ==
    [op |-> "download", url |-> i.url, connects |-> i.connects,
     http_ok |-> i.http_ok, writable |-> i.writable, chunks |-> i.chunks,
     fail_at |-> i.fail_at, close_ok |-> i.close_ok, pc |-> "start", file |-> "", msgs |-> <<>>,
     exited |-> FALSE, gets |-> 0, opened |-> FALSE, written |-> 0,
     failed |-> FALSE, caught |-> FALSE]

\* download_on_exception, had the handler let the function carry on
download_on_exception_ignored == "finish"

\* line 49: `except Exception` takes every exception of the try block
download_on_exception == "except"

download_raise(x) == [x EXCEPT !.failed = TRUE, !.pc = download_on_exception]

\* lines 40-42
DownloadStart ==
    /\ xfer.op = "download" /\ xfer.pc = "start"
    /\ xfer' = [xfer EXCEPT !.file = url_file(xfer.url),
                            !.msgs = msg_note(@, "Downloading"),
                            !.pc = "get"]
    /\ UNCHANGED mainVars

\* line 44: requests.get(url, stream=True)
DownloadGet ==
    /\ xfer.op = "download" /\ xfer.pc = "get"
    /\ LET x == [xfer EXCEPT !.gets = @ + 1]
       IN  xfer' = IF x.connects THEN [x EXCEPT !.pc = "status"]
                   ELSE download_raise(x)
    /\ UNCHANGED mainVars

\* line 45: r.raise_for_status()
DownloadStatus ==
    /\ xfer.op = "download" /\ xfer.pc = "status"
    /\ xfer' = IF xfer.http_ok THEN [xfer EXCEPT !.pc = "open"]
               ELSE download_raise(xfer)
    /\ UNCHANGED mainVars

\* line 46: open(file, 'wb'); an empty name or an unwritable directory raises
DownloadOpen ==
    /\ xfer.op = "download" /\ xfer.pc = "open"
    /\ xfer' = IF xfer.file # "" /\ xfer.writable
               THEN [xfer EXCEPT !.opened = TRUE, !.pc = "write"]
               ELSE download_raise(xfer)
    /\ UNCHANGED mainVars

\* lines 46-48: one turn of the chunk loop, or its end, where leaving
\* `with open(file, 'wb')` flushes and closes the file, still inside the try
DownloadWrite ==
    /\ xfer.op = "download" /\ xfer.pc = "write"
    /\ xfer' = IF xfer.written = xfer.chunks
               THEN IF xfer.close_ok THEN [xfer EXCEPT !.pc = "finish"]
                    ELSE download_raise(xfer)
               ELSE IF xfer.fail_at = xfer.written + 1
                    THEN download_raise(xfer)
                    ELSE [xfer EXCEPT !.written = @ + 1]
    /\ UNCHANGED mainVars

\* lines 49-50: the handler
DownloadExcept ==
    /\ xfer.op = "download" /\ xfer.pc = "except"
    /\ LET x == msg_error([xfer EXCEPT !.caught = TRUE], "Download failed.")
       IN  xfer' = [x EXCEPT !.pc = IF x.exited THEN "exit" ELSE "finish"]
    /\ UNCHANGED mainVars

\* line 51
DownloadDone ==
    /\ xfer.op = "download" /\ xfer.pc = "finish"
    /\ xfer' = [xfer EXCEPT !.msgs = msg_done(@, "Done!"), !.pc = "returned"]
    /\ UNCHANGED mainVars

(***************************************************************************)
(* tools/fileoperations.py: ucopy                                          *)
(***************************************************************************)
Names == 1..MaxEntries

\* the kinds an entry of src may have: "other" is neither a directory nor a
\* regular file to os.path (a dangling link)
EntryKinds == {"file", "dir", "other"}

\* What ucopy finds when src is a directory: what dst is (and, when it is
\* missing, whether its parent directory exists), the entries of src and
\* their kinds, the entries dst already has, the `exceptions` argument, the
\* entry whose name equals the string src (0: none), the entries whose
\* copy the system refuses, and whether os.listdir(src) may list src.
UcopyDirInputs ==
    {i \in [op : {"ucopy"}, src_kind : {"dir"},
            dst_kind : {"dir", "file", "missing"}, dst_parent : BOOLEAN,
            kinds : [Names -> EntryKinds], dst_has : SUBSET Names,
            exceptions : SUBSET Names, src_name : {0} \cup Names,
            refused : SUBSET Names, listable : BOOLEAN] :
        /\ i.dst_kind # "missing" => i.dst_parent
        /\ i.dst_kind # "dir" => i.dst_has = {}}

\* What ucopy finds when src is a single file (0 in `refused`: the system
\* refuses the copy) or is not there at all.
UcopyFileInputs ==
    {i \in [op : {"ucopy"}, src_kind : {"file", "missing"},
            dst_kind : {"dir", "file", "missing"}, dst_parent : BOOLEAN,
            kinds : {[n \in Names |-> "file"]}, dst_has : {{}},
            exceptions : {{}}, src_name : {0}, refused : SUBSET {0},
            listable : {TRUE}] :
        i.dst_kind # "missing" => i.dst_parent}

UcopyInputs == UcopyDirInputs \cup UcopyFileInputs

ucopy_start(i) ==
    [op |-> "ucopy", src_kind |-> i.src_kind, dst_kind |-> i.dst_kind,
     dst_parent |-> i.dst_parent, kinds |-> i.kinds, dst_has |-> i.dst_has,
     exceptions |-> i.exceptions, src_name |-> i.src_name,
     refused |-> i.refused, listable |-> i.listable, pc |-> "start",
     msgs |-> <<>>,
     exited |-> FALSE, todo |-> {}, attempts |-> <<>>, copied |-> {},
     failed |-> FALSE, caught |-> FALSE]

\* lines 9-32 hold no try statement: an exception leaves ucopy
ucopy_on_exception == "raised"

ucopy_raise(x) == [x EXCEPT !.failed = TRUE, !.pc = ucopy_on_exception]

\* lines 17-20, or 31-32. A copy the system refuses may break before the
\* destination is opened (an unreadable source) or while it is written (a
\* full disk, a size limit): `made` is whether the destination was made.
UcopyStart ==
    /\ xfer.op = "ucopy" /\ xfer.pc = "start"
    /\ \E made \in BOOLEAN :
         xfer' =
           CASE xfer.src_kind = "dir" ->
                  \* os.mkdir(dst) raises when dst is a file or has no
                  \* parent; os.listdir(src), after it, raises when src may
                  \* not be listed
                  IF xfer.dst_kind # "dir"
                     /\ (xfer.dst_kind = "file" \/ ~xfer.dst_parent)
                  THEN ucopy_raise(xfer)
                  ELSE LET x == [xfer EXCEPT !.dst_kind = "dir"]
                       IN  IF xfer.listable
                           THEN [x EXCEPT !.todo = Names, !.pc = "loop"]
                           ELSE ucopy_raise(x)
             [] xfer.src_kind = "file" ->
                  \* shutil.copy(src, dst): into dst when it is a directory,
                  \* else onto the file dst, which it creates when missing
                  LET x == [xfer EXCEPT !.attempts = Append(@, 0)]
                      y == [x EXCEPT !.dst_kind = IF @ = "missing"
                                                  THEN "file" ELSE @]
                  IN  IF ~xfer.dst_parent THEN ucopy_raise(x)
                      ELSE IF 0 \in xfer.refused
                           THEN ucopy_raise(IF made THEN y ELSE x)
                           ELSE [y EXCEPT !.copied = {0}, !.pc = "returned"]
             [] OTHER -> [xfer EXCEPT !.pc = "returned"]
    /\ UNCHANGED mainVars

\* lines 21-29: one entry of os.listdir(src), in the order the system lists.
\* A refused copy may break before the destination entry is made (the
\* source itself is unreadable) or after (an item inside a directory, or
\* the write of a file, breaks): `made` is whether it was made.
UcopyEntry ==
    /\ xfer.op = "ucopy" /\ xfer.pc = "loop"
    /\ \E e \in xfer.todo, made \in BOOLEAN :
         LET x == [xfer EXCEPT !.todo = @ \ {e}]
             y == [x EXCEPT !.attempts = Append(@, e)]
             z == [y EXCEPT !.dst_has = @ \cup {e}]
         IN  xfer' =
               IF e \in x.exceptions \/ e = x.src_name THEN x
               ELSE CASE x.kinds[e] = "dir" ->
                           \* shutil.copytree raises when the destination
                           \* exists
                           IF e \in x.dst_has THEN ucopy_raise(y)
                           ELSE IF e \in x.refused
                                THEN ucopy_raise(IF made THEN z ELSE y)
                                ELSE [z EXCEPT !.copied = @ \cup {e}]
                      [] x.kinds[e] = "file" ->
                           IF e \in x.refused
                           THEN ucopy_raise(IF made THEN z ELSE y)
                           ELSE [z EXCEPT !.copied = @ \cup {e}]
                      \* neither branch of lines 26-29 applies
                      [] OTHER -> x
    /\ UNCHANGED mainVars

\* the loop ends and ucopy returns
UcopyReturn ==
    /\ xfer.op = "ucopy" /\ xfer.pc = "loop" /\ xfer.todo = {}
    /\ xfer' = [xfer EXCEPT !.pc = "returned"]
    /\ UNCHANGED mainVars

InitTransfer ==
    /\ argv = [topClean |-> FALSE, command |-> "none"]
    /\ host = [system |-> "Linux", apt |-> TRUE]
    /\ fs = {}
    /\ pc = "idle"
    /\ args = Unparsed
    /\ env = [k \in {} |-> None]
    /\ loaded = <<>>
    /\ checks = <<>>
    /\ verdict = "none"
    /\ msgs = <<>>
    /\ redirects = <<>>
    /\ calls = <<>>
    /\ status = "running"
    /\ xfer \in {download_start(i) : i \in DownloadInputs}
                  \cup {ucopy_start(i) : i \in UcopyInputs}

NextTransfer ==
    \/ DownloadStart
    \/ DownloadGet
    \/ DownloadStatus
    \/ DownloadOpen
    \/ DownloadWrite
    \/ DownloadExcept
    \/ DownloadDone
    \/ UcopyStart
    \/ UcopyEntry
    \/ UcopyReturn

SpecTransfer == InitTransfer /\ [][NextTransfer]_vars

(***************************************************************************)
(* Properties                                                              *)
(***************************************************************************)
terminated == pc \in {"exit", "done"}

validated == verdict # "none"

is_call(i, fn) == calls[i].fn = fn

container_indices == {i \in 1..Len(calls) : is_call(i, "ContainerEngine")}

BuildCollaborators ==
    {"ContainerEngine", "KernelBuilder", "AssetCollector", "BundleCreator"}

\* the allow-list as the specification gives it
AllowList ==
    {"buildenv", "build_module", "codename", "losversion", "clean_image",
     "chroot", "package_type", "clean_kernel", "clean_assets", "rom_only",
     "extra_assets", "conan_upload"}

HostOnly == {"outlog", "loglvl", "command", "clean"}

\* the platform check passes, or does not apply
platform_passes == argv.buildenv # "local" \/ (host.system = "Linux" /\ host.apt)

slim_upload ==
    /\ argv.command = "bundle"
    /\ argv.package_type = "generic-slim"
    /\ argv.conan_upload

\* C1: every parameter mapping handed to ContainerEngine has only keys of
\* the allow-list, and none of the host-only fields outlog, loglvl, command
\* and clean.
C1_ContainerKeysAllowListed ==
    \A i \in container_indices :
        /\ DOMAIN calls[i].config \subseteq AllowList
        /\ DOMAIN calls[i].config \cap HostOnly = {}

\* C1 witness: a container hand-off of a request that carries an output log
\* and the subcommand's fields.
C1_Witness ==
    /\ container_indices # {}
    /\ argv.command = "assets"
    /\ argv.outlog = <<"/", "tmp", "out.log">>
    /\ argv.loglvl = "verbose"

\* C2: in a container hand-off build_module is the command name, every
\* other forwarded key carries the value the request gave it, and a kernel
\* request forwards exactly buildenv, build_module, codename, losversion
\* and clean_image.
C2_ContainerValues ==
    \A i \in container_indices :
        LET config == calls[i].config
        IN  /\ "build_module" \in DOMAIN config
            /\ config.build_module = argv.command
            /\ \A k \in (DOMAIN config) \ {"build_module"} :
                   k \in DOMAIN argv /\ config[k] = argv[k]
            /\ argv.command = "kernel" =>
                   config = [buildenv |-> argv.buildenv,
                             build_module |-> "kernel",
                             codename |-> argv.codename,
                             losversion |-> argv.losversion,
                             clean_image |-> argv.clean_image]

\* C2 witness: `kernel docker 20.0 pixel9` reached the container engine.
C2_Witness ==
    /\ pc = "done"
    /\ calls = <<[fn |-> "ContainerEngine",
                  config |-> [buildenv |-> "docker", build_module |-> "kernel",
                              codename |-> "pixel9", losversion |-> "20.0",
                              clean_image |-> FALSE]]>>

\* C3: with the top-level --clean flag given, the run calls the root cleaner
\* and exits 0, loads no manifest, runs no validation and calls no build or
\* container collaborator.
C3_TopCleanIsCleanOnly ==
    argv.topClean =>
        /\ loaded = <<>>
        /\ checks = <<>>
        /\ verdict = "none"
        /\ \A i \in 1..Len(calls) : is_call(i, "cm.root")
        /\ terminated => (status = 0 /\ Len(calls) = 1)

\* C4, as claimed: a validated request whose codename is not in the device
\* manifest gets UnsupportedDevice, whatever the command, the build
\* environment and the host.
C4_UnknownDeviceAlwaysUnsupportedDevice ==
    (validated /\ argv.codename \notin DeviceManifest) =>
        verdict = "UnsupportedDevice"

\* C4, amended: a validated request whose codename is not in the device
\* manifest gets UnsupportedDevice whenever the platform check passes or
\* does not apply, whatever the command; a local request on a host that
\* fails the platform check gets UnsupportedPlatform instead.
C4_UnknownDeviceAfterPlatform ==
    (validated /\ argv.codename \notin DeviceManifest) =>
        /\ platform_passes =>
              /\ verdict = "UnsupportedDevice"
              /\ errors_of(msgs) = <<[kind |-> "error", text |-> ErrDevice]>>
        /\ ~platform_passes => verdict = "UnsupportedPlatform"

\* C4 witness: an unknown codename rejected in a container build on a host
\* that a local build would refuse.
C4_Witness ==
    /\ verdict = "UnsupportedDevice"
    /\ argv.codename \notin DeviceManifest
    /\ argv.buildenv = "podman"
    /\ host.system = "Darwin"

\* C5, as claimed: a validated bundle request with package type generic-slim
\* and conan_upload set gets InvalidArgumentCombination.
C5_SlimUploadAlwaysInvalid ==
    (validated /\ slim_upload) => verdict = "InvalidArgumentCombination"

\* C5, amended: a validated bundle request with generic-slim and conan_upload
\* gets InvalidArgumentCombination when the platform check and the device
\* lookup pass, and the earlier failure otherwise; a bundle request with
\* package type conan never fails the conan check; for kernel and assets
\* requests the check is not evaluated.
C5_ConanCheck ==
    validated =>
        /\ slim_upload =>
              IF platform_passes /\ argv.codename \in DeviceManifest
              THEN /\ verdict = "InvalidArgumentCombination"
                   /\ checks[Len(checks)] = "conan"
              ELSE /\ verdict \in {"UnsupportedPlatform", "UnsupportedDevice"}
                   /\ \A i \in 1..Len(checks) : checks[i] # "conan"
        /\ (argv.command = "bundle" /\ argv.package_type = "conan") =>
              verdict # "InvalidArgumentCombination"
        /\ argv.command \in {"kernel", "assets"} =>
              /\ verdict # "InvalidArgumentCombination"
              /\ \A i \in 1..Len(checks) : checks[i] # "conan"

\* C5 witness: `bundle docker 20.0 pixel9 generic-slim --conan-upload`
\* was rejected for the flag combination.
C5_Witness ==
    /\ verdict = "InvalidArgumentCombination"
    /\ slim_upload
    /\ argv.buildenv = "docker"
    /\ argv.codename = "pixel9"

\* C6: once validation has reported a failure the process has ended with a
\* non-zero status, no build or container collaborator was or is invoked
\* and no output-log redirection is established.
C6_FailureStopsRun ==
    verdict \in Failures =>
        /\ pc = "exit"
        /\ status = 1
        /\ \A i \in 1..Len(calls) : calls[i].fn \notin BuildCollaborators
        /\ redirects = <<>>
        /\ "OSTREAM" \notin DOMAIN env

\* C6 witness: `assets podman 20.0 unknownDevice full -o out.log` was
\* rejected.
C6_Witness ==
    /\ verdict = "UnsupportedDevice"
    /\ argv.command = "assets"
    /\ argv.buildenv = "podman"
    /\ argv.outlog = <<"out.log">>
    /\ pc = "exit"

\* the collaborator call C7 expects of a local request
C7_expected_call ==
    CASE argv.command = "kernel" ->
            [fn |-> "KernelBuilder", codename |-> argv.codename,
             losversion |-> argv.losversion, clean |-> argv.clean]
      [] argv.command = "assets" ->
            [fn |-> "AssetCollector", codename |-> argv.codename,
             losversion |-> argv.losversion, chroot |-> argv.chroot,
             clean |-> argv.clean, rom_only |-> argv.rom_only,
             extra_assets |-> argv.extra_assets]
      [] argv.command = "bundle" ->
            [fn |-> "BundleCreator", codename |-> argv.codename,
             losversion |-> argv.losversion,
             package_type |-> argv.package_type]

\* C7: a local request without the top-level --clean that passes validation
\* ends with exactly one collaborator called, the one of its command, with
\* the request's own values, also when the subcommand's own clean flag is
\* given.
C7_LocalDispatch ==
    ( /\ terminated
      /\ argv.command # "none"
      /\ ~argv.topClean
      /\ argv.buildenv = "local"
      /\ host.system = "Linux" /\ host.apt
      /\ argv.codename \in DeviceManifest
      /\ ~slim_upload ) =>
        calls = <<C7_expected_call>>

\* C8: the output log is redirected at most once, only when -o was given,
\* and with no earlier file left at the path at that moment.
C8_RedirectAfterRemoval ==
    /\ Len(redirects) <= 1
    /\ redirects # <<>> => (argv.command # "none" /\ argv.outlog # None)
    /\ \A i \in 1..Len(redirects) : ~redirects[i].stale

\* the checks of validate_settings in the order C9 gives them
C9_Order == <<"system", "apt", "devices", "conan">>

C9_applies(c) ==
    CASE c \in {"system", "apt"} -> argv.buildenv = "local"
      [] c = "devices" -> TRUE
      [] c = "conan" -> argv.command = "bundle"

C9_fails(c) ==
    CASE c = "system" -> host.system # "Linux"
      [] c = "apt" -> ~host.apt
      [] c = "devices" -> argv.codename \notin DeviceManifest
      [] c = "conan" -> slim_upload

C9_error(c) ==
    CASE c \in {"system", "apt"} -> "UnsupportedPlatform"
      [] c = "devices" -> "UnsupportedDevice"
      [] c = "conan" -> "InvalidArgumentCombination"

C9_applicable == SelectSeq(C9_Order, C9_applies)

C9_failing == {i \in 1..Len(C9_applicable) : C9_fails(C9_applicable[i])}

C9_first == CHOOSE i \in C9_failing : \A j \in C9_failing : i <= j

\* C9: validation evaluates the platform check (local builds only: Linux,
\* then apt), the device lookup and the bundle's conan check in that order,
\* stops at the first that fails, reports that one alone and ends the
\* process with a non-zero status.
C9_FirstFailureWins ==
    validated =>
        /\ Len(errors_of(msgs)) <= 1
        /\ IF C9_failing = {}
           THEN /\ checks = C9_applicable
                /\ verdict = "ok"
                /\ errors_of(msgs) = <<>>
           ELSE /\ checks = SubSeq(C9_applicable, 1, C9_first)
                /\ verdict = C9_error(C9_applicable[C9_first])
                /\ Len(errors_of(msgs)) = 1
                /\ pc = "exit"
                /\ status = 1

\* C9 witness: a local bundle request that fails all of apt, device and
\* conan checks got the platform error alone.
C9_Witness ==
    /\ verdict = "UnsupportedPlatform"
    /\ checks = <<"system", "apt">>
    /\ argv.codename \notin DeviceManifest
    /\ slim_upload
    /\ Len(errors_of(msgs)) = 1

xfer_ended == xfer.pc \in {"exit", "returned", "raised"}

xfer_reported(kind) == \E i \in 1..Len(xfer.msgs) : xfer.msgs[i].kind = kind

\* C10: every failed transfer, by download or by ucopy, ends caught inside
\* the primitive, reported with an error message and fatal, was not tried
\* again, and success is not reported after it.
C10_EveryFailureCaught ==
    (xfer.op # "none" /\ xfer.failed /\ xfer_ended) =>
        /\ xfer.caught
        /\ xfer_reported("error")
        /\ xfer.exited
        /\ ~xfer_reported("done")
        /\ xfer.op = "download" => xfer.gets <= 1

\* What the code does about a failed transfer: a failed download is caught
\* inside download, reported with one error message and fatal, and never
\* says "Done!"; a failed ucopy is not caught inside ucopy: the exception
\* leaves it with no message. Neither retries: one request per download,
\* one attempt per entry.
TransferFailures ==
    /\ (xfer.op = "download" /\ xfer.failed) =>
          /\ xfer.pc \in {"except", "exit"}
          /\ ~xfer_reported("done")
          /\ xfer.gets <= 1
          /\ xfer.pc = "exit" =>
                /\ xfer.caught
                /\ xfer.exited
                /\ errors_of(xfer.msgs) =
                       <<[kind |-> "error", text |-> "Download failed."]>>
    /\ (xfer.op = "download" /\ xfer_reported("done")) => ~xfer.failed
    /\ (xfer.op = "ucopy" /\ xfer.failed) =>
          /\ xfer.pc = "raised"
          /\ ~xfer.caught
          /\ ~xfer.exited
          /\ xfer.msgs = <<>>
    /\ xfer.op = "ucopy" =>
          \A i, j \in 1..Len(xfer.attempts) :
              xfer.attempts[i] = xfer.attempts[j] => i = j

\* the download half of C10 alone, which the code keeps
DownloadFailureCaught ==
    (xfer.op = "download" /\ xfer.failed /\ xfer_ended) =>
        /\ xfer.caught
        /\ xfer_reported("error")
        /\ xfer.exited
        /\ ~xfer_reported("done")
        /\ xfer.gets <= 1

====
